---- MODULE Spec2Model ----
(***************************************************************************)
(* The duplex bridge of interflow (src/src/duplex.rs): the input proxy     *)
(* running in the input stream's callback, the duplex callback running in  *)
(* the output stream's callback, the two capacity-1 ring buffers between   *)
(* them, the resampling hand-off channels, and the construction and        *)
(* teardown of the duplex stream handle.                                   *)
(*                                                                         *)
(* The two callbacks run on two threads.  Each callback is cut into steps  *)
(* at its operations on shared objects (a ring buffer push or pop, a push  *)
(* into or a read from a resampling channel); the steps of the two threads *)
(* interleave freely.                                                      *)
(*                                                                         *)
(* Sample rates are scaled down to small integers; a frame is abstracted   *)
(* to one value (0 is silence, Signal is captured audio).                  *)
(***************************************************************************)
EXTENDS Integers, Sequences, FiniteSets, TLC

\* ------------------------------------------------------------- bounds
\* Number of times the rate seen by the output callback may change.
MaxRateChanges == 3
\* Frames a resampling channel can buffer.
ChanCap == 2
\* Frames in one captured input buffer.
MaxInFrames == 1

\* ------------------------------------------------- program constants
\* rtrb::RingBuffer::new(1)
Capacity == 1
\* input.buffer.chunks(32)
ChunkFrames == 32

\* Scaled sample rates a stream configuration can carry (positive).
Rates == {1, 2}
\* Channel counts a stream configuration can carry: none, or stereo.
ChannelCounts == {0, 2}
\* Frame counts of the output buffers handed to the output callback.
OutFrameCounts == {1}
\* The value of a captured (non-silent) frame.
Signal == 1

Min(a, b) == IF a <= b THEN a ELSE b

\* ---------------------------------------------------------- variables
VARIABLES
    debug_assertions,     \* build configuration: cfg!(debug_assertions)
    input_config,         \* the input_config given to create_duplex_stream
    pcCreate,             \* position of create_duplex_stream
    createLog,            \* stream creations asked of the devices and how each answered
    createResult,         \* what create_duplex_stream returned
    inputRunning,         \* the input stream's handle is held and the stream runs
    outputRunning,        \* the output stream's handle is held and the stream runs
    rateBox,              \* ring buffer send_samplerate -> receive_output_samplerate
    consBox,              \* ring buffer send_consumer -> receive_consumer
    channels,             \* every resampling channel constructed, in order
    producer,             \* InputProxy.producer (0: None, else channel id)
    pcIn,                 \* position of on_input_data
    output_samplerate,    \* on_input_data: the rate popped in this invocation
    rx,                   \* on_input_data: consumer end not yet sent (0: none)
    inBuf,                \* on_input_data: captured frames not yet pushed
    input,                \* DuplexCallback.input (0: None, else channel id)
    current_samplerate,   \* DuplexCallback.current_samplerate
    storage,              \* DuplexCallback.storage, frame index -> frame
    callback,             \* the user's callback object
    pcOut,                \* position of on_output_data
    out_frames,           \* on_output_data: frames of the output buffer
    available,            \* on_output_data: what available_frames() returned
    num_samples,          \* on_output_data: frames to read / frames read
    rateSend,             \* on_output_data: what the rate send of this invocation answered
    pcEject,              \* position of eject
    ejectLog,             \* stream ejects invoked and how each answered, in order
    ejectResult,          \* what eject returned
    lastObserved,         \* history: rate seen by the latest output invocation
    rateChanges,          \* history: times the observed rate changed
    numPublishes,         \* history: rate sends the ring buffer accepted
    adopted,              \* history: channel ids adopted by the output side
    zeroDrops,            \* history: rates received with zero input channels
    published,            \* history: the rates the ring buffer accepted, in order
    userCalls             \* history: user callback runs of the latest output invocation

createVars == <<debug_assertions, input_config, pcCreate, createLog, createResult>>
runVars    == <<inputRunning, outputRunning>>
boxVars    == <<rateBox, consBox>>
inVars     == <<producer, pcIn, output_samplerate, rx, inBuf>>
outVars    == <<input, current_samplerate, storage, callback, pcOut, out_frames,
                available, num_samples, rateSend>>
ejectVars  == <<pcEject, ejectLog, ejectResult>>
histVars   == <<lastObserved, rateChanges, numPublishes, adopted, zeroDrops,
                published, userCalls>>
vars == <<createVars, runVars, boxVars, channels, inVars, outVars, ejectVars, histVars>>

\* ------------------------------------------------ ring buffers (rtrb)
IsFull(q) == Len(q) >= Capacity
\* Producer::push: Err(Full) on a full buffer, the value is handed back.
PushOk(q) == ~IsFull(q)
\* (changed: a push on a full buffer overwrites the occupant)
PushOverwrite(q, v) == IF IsFull(q) THEN <<v>> ELSE Append(q, v)
Push(q, v) == IF IsFull(q) THEN q ELSE Append(q, v)
\* Consumer::pop: the oldest item is removed.
PopOk(q) == Len(q) > 0
\* (changed: a pop leaves the item in the buffer)
PopKeep(q) == q
Pop(q) == Tail(q)

\* ------------------------------ resampling channels (fixed_resample)
\* Frames of silence a channel is brought back to (the default
\* configuration's latency, scaled).
LatencyFrames == 1

\* resampling_channel(num_channels, in_sample_rate, out_sample_rate, config)
NewChannel(nch, ri, ro) ==
    [in_rate |-> ri, out_rate |-> ro, nch |-> nch,
     buf |-> [i \in 1 .. LatencyFrames |-> 0], cons_dropped |-> FALSE]

\* Drop of a ResamplingCons: nothing reads the channel any more, and what it
\* buffers is no longer followed.
DropConsumer(ch) == [ch EXCEPT !.buf = <<>>, !.cons_dropped = TRUE]

\* Rate conversion of a run of frames: Len * ro / ri frames come out, each
\* taking the value of the input frame at the same instant.
Resample(frames, ri, ro) ==
    [j \in 1 .. ((Len(frames) * ro) \div ri) |-> frames[(((j - 1) * ri) \div ro) + 1]]

\* ResamplingProd::push_interleaved: what fits is buffered, the rest is lost.
PushInterleaved(ch, frames) ==
    LET all == ch.buf \o Resample(frames, ch.in_rate, ch.out_rate)
    IN  IF ch.cons_dropped THEN ch
        ELSE [ch EXCEPT !.buf = SubSeq(all, 1, Min(Len(all), ChanCap))]

\* ResamplingProd::correct_underflows: a channel run dry is refilled with
\* silence.
Underflowed(ch) == Len(ch.buf) = 0 /\ ~ch.cons_dropped
CorrectUnderflows(ch) ==
    IF Underflowed(ch)
    THEN [ch EXCEPT !.buf = [i \in 1 .. LatencyFrames |-> 0]]
    ELSE ch

\* ResamplingCons::discard_jitter: the numbers of frames it may discard
\* (none, or what is buffered beyond the latency).
JitterDiscards(ch) ==
    {0} \cup (IF Len(ch.buf) > LatencyFrames THEN {Len(ch.buf) - LatencyFrames} ELSE {})
DiscardJitter(ch, d) == [ch EXCEPT !.buf = SubSeq(@, d + 1, Len(@))]
\* ResamplingCons::available_frames
AvailableFrames(ch) == Len(ch.buf)
\* ResamplingCons::read_interleaved, n frames one after the other.
ReadFrames(ch, n) == SubSeq(ch.buf, 1, n)
AfterRead(ch, n) == [ch EXCEPT !.buf = SubSeq(@, n + 1, Len(@))]

\* --------------------------------------------- InputProxy::on_input_data
\* The captured buffer of one invocation.
Captured(n) == [i \in 1 .. n |-> Signal]

\* input.buffer.chunks(32): the first chunk and what follows it.
FirstChunk(buf) == SubSeq(buf, 1, Min(Len(buf), ChunkFrames))
\* (changed: the loop does not move on to the next chunk)
SameChunkAgain(buf) == buf
RestChunks(buf) == SubSeq(buf, Min(Len(buf), ChunkFrames) + 1, Len(buf))

\* The scratch slice handed to push_interleaved for one chunk.  The copy
\* into the scratch array is the argument of debug_assert!, which is not
\* evaluated when debug assertions are compiled out: the slice then holds
\* the zeros the array was created with.
ScratchOf(chunk, dbg) ==
    IF dbg THEN chunk ELSE [i \in 1 .. Len(chunk) |-> 0]

\* (changed: a channel count of zero is taken like any other)
AnyChannelCount(nch) == TRUE
\* Lines 80-84: NonZeroUsize::new(channels.count()) is Some.
NonZeroChannels(nch) == nch # 0

\* Lines 79-114: poll the rate ring buffer; on a rate, build the channel and
\* keep its producer; without a producer the captured audio is dropped.
InputPoll(nch, n) ==
    /\ inputRunning
    /\ pcIn = "idle"
    /\ IF PopOk(rateBox)
       THEN /\ rateBox' = Pop(rateBox)
            /\ IF ~NonZeroChannels(nch)
               THEN /\ zeroDrops' = zeroDrops + 1
                    /\ UNCHANGED <<channels, producer, pcIn, output_samplerate, rx, inBuf>>
               ELSE /\ channels' = Append(channels,
                                      NewChannel(nch, input_config.samplerate, Head(rateBox)))
                    /\ producer' = Len(channels) + 1
                    /\ rx' = Len(channels) + 1
                    /\ output_samplerate' = Head(rateBox)
                    /\ inBuf' = Captured(n)
                    /\ pcIn' = "send"
                    /\ UNCHANGED zeroDrops
       ELSE /\ IF producer = 0
               THEN UNCHANGED <<pcIn, inBuf>>
               ELSE pcIn' = "underflow" /\ inBuf' = Captured(n)
            /\ UNCHANGED <<rateBox, channels, producer, output_samplerate, rx, zeroDrops>>
    /\ UNCHANGED <<createVars, runVars, consBox, outVars, ejectVars,
                   lastObserved, rateChanges, numPublishes, adopted, published,
                   userCalls>>

\* Lines 99-109: send the consumer end; a rejected consumer is dropped.
InputSend ==
    /\ pcIn = "send"
    /\ consBox' = Push(consBox, rx)
    /\ channels' = IF PushOk(consBox) THEN channels
                   ELSE [channels EXCEPT ![rx] = DropConsumer(@)]
    /\ rx' = 0
    /\ pcIn' = "underflow"
    /\ UNCHANGED <<createVars, runVars, rateBox, producer, output_samplerate,
                   inBuf, outVars, ejectVars, histVars>>

\* Lines 115-117: correct_underflows on the producer.
InputUnderflow ==
    /\ pcIn = "underflow"
    /\ channels' = [channels EXCEPT ![producer] = CorrectUnderflows(@)]
    /\ IF inBuf = <<>>
       THEN pcIn' = "idle" /\ output_samplerate' = 0
       ELSE pcIn' = "push" /\ UNCHANGED output_samplerate
    /\ UNCHANGED <<createVars, runVars, boxVars, producer, rx, inBuf, outVars,
                   ejectVars, histVars>>

\* Lines 119-127: one turn of the loop over the chunks of the buffer.
InputPush ==
    /\ pcIn = "push"
    /\ channels' = [channels EXCEPT ![producer] =
                       PushInterleaved(@, ScratchOf(FirstChunk(inBuf), debug_assertions))]
    /\ inBuf' = RestChunks(inBuf)
    /\ IF RestChunks(inBuf) = <<>>
       THEN pcIn' = "idle" /\ output_samplerate' = 0
       ELSE UNCHANGED <<pcIn, output_samplerate>>
    /\ UNCHANGED <<createVars, runVars, boxVars, producer, rx, outVars,
                   ejectVars, histVars>>

\* ------------------------------------ DuplexCallback::on_output_data
\* Lines 388-391: AudioBuffer::zeroed(channels, samplerate) has as many
\* frames as the input sample rate.
StorageFrames(cfg) == cfg.samplerate
ZeroedStorage(cfg) == [i \in 0 .. (StorageFrames(cfg) - 1) |-> 0]
\* AudioBuffer::num_samples
NumSamplesOf(st) == Cardinality(DOMAIN st)

\* Lines 169-174: what the rate ring buffer and the cached rate become.
\* (changed: the rate is sent in every invocation)
PublishAlways(cur, sr) == TRUE
ShouldPublish(cur, sr) == sr # cur
\* (changed: the cached rate is never updated)
NeverCached(cur, sr, ok) == cur
\* (changed: the cached rate is updated whatever the send answered)
CachedAnyway(cur, sr, ok) == sr
NextSamplerate(cur, sr, ok) == IF ok THEN sr ELSE cur

\* (changed: everything available is read)
ReadAllAvailable(st, avail) == avail
\* Line 194: the number of frames one invocation reads.
FramesToRead(st, avail) == Min(NumSamplesOf(st), avail)

\* (changed: the frames after those read are cleared)
SetFramesClearRest(st, frames) ==
    [i \in DOMAIN st |-> IF i < Len(frames) THEN frames[i + 1] ELSE 0]
\* Lines 195-199: set_frame(i, frame) for the frames read, i = 0, 1, ...
SetFrames(st, frames) ==
    [i \in DOMAIN st |-> IF i < Len(frames) THEN frames[i + 1] ELSE st[i]]

\* (changed: the input view is the whole storage)
InputViewAll(st, n) == [i \in 1 .. NumSamplesOf(st) |-> st[i - 1]]
\* Line 207: storage.slice(..num_samples), the input view of the user callback.
InputView(st, n) == [i \in 1 .. n |-> st[i - 1]]

\* AudioDuplexCallback::on_audio_data of the user: this one remembers that it
\* ran and how many input frames it was last given.
UserCallback(cb, view) == [called |-> TRUE, last_len |-> Len(view)]

\* Lines 168-174: publish the rate when it differs from the cached one.
OutputPublish(sr, nout) ==
    /\ outputRunning
    /\ pcOut = "idle"
    /\ sr = lastObserved \/ rateChanges < MaxRateChanges
    /\ lastObserved' = sr
    /\ rateChanges' = IF sr = lastObserved THEN rateChanges ELSE rateChanges + 1
    /\ IF ShouldPublish(current_samplerate, sr)
       THEN /\ rateBox' = Push(rateBox, sr)
            /\ current_samplerate' = NextSamplerate(current_samplerate, sr, PushOk(rateBox))
            /\ numPublishes' = IF PushOk(rateBox) THEN numPublishes + 1 ELSE numPublishes
            /\ published' = IF PushOk(rateBox) THEN Append(published, sr) ELSE published
            /\ rateSend' = IF PushOk(rateBox) THEN "accepted" ELSE "rejected"
       ELSE /\ rateSend' = "none"
            /\ UNCHANGED <<rateBox, current_samplerate, numPublishes, published>>
    /\ out_frames' = nout
    /\ userCalls' = 0
    /\ pcOut' = "poll"
    /\ UNCHANGED <<createVars, runVars, consBox, channels, inVars, input, storage,
                   callback, available, num_samples, ejectVars, adopted, zeroDrops>>

\* Lines 177-184: adopt a consumer waiting in the ring buffer.
OutputPoll ==
    /\ pcOut = "poll"
    /\ IF PopOk(consBox)
       THEN /\ consBox' = Pop(consBox)
            /\ input' = Head(consBox)
            /\ channels' = IF input = 0 THEN channels
                           ELSE [channels EXCEPT ![input] = DropConsumer(@)]
            /\ adopted' = Append(adopted, Head(consBox))
       ELSE UNCHANGED <<consBox, input, channels, adopted>>
    /\ pcOut' = "avail"
    /\ rateSend' = "none"
    /\ UNCHANGED <<createVars, runVars, rateBox, inVars, current_samplerate,
                   storage, callback, out_frames, available, num_samples,
                   ejectVars, lastObserved, rateChanges, numPublishes, zeroDrops,
                   published, userCalls>>

\* Lines 187-194 and 201-203: discard jitter, ask what is available, settle
\* the number of frames to read; none without a consumer.
OutputAvail ==
    /\ pcOut = "avail"
    /\ IF input # 0
       THEN \E d \in JitterDiscards(channels[input]) :
              LET ch == DiscardJitter(channels[input], d)
              IN  /\ channels' = [channels EXCEPT ![input] = ch]
                  /\ available' = AvailableFrames(ch)
                  /\ num_samples' = FramesToRead(storage, AvailableFrames(ch))
                  /\ pcOut' = "read"
       ELSE /\ num_samples' = 0
            /\ pcOut' = "call"
            /\ UNCHANGED <<channels, available>>
    /\ UNCHANGED <<createVars, runVars, boxVars, inVars, input, current_samplerate,
                   storage, callback, out_frames, rateSend, ejectVars, histVars>>

\* Lines 195-199: read the frames into the storage.
OutputRead ==
    /\ pcOut = "read"
    /\ storage' = SetFrames(storage, ReadFrames(channels[input], num_samples))
    /\ channels' = [channels EXCEPT ![input] = AfterRead(@, num_samples)]
    /\ pcOut' = "call"
    /\ UNCHANGED <<createVars, runVars, boxVars, inVars, input, current_samplerate,
                   callback, out_frames, available, num_samples, rateSend, ejectVars,
                   histVars>>

\* Lines 205-210: run the user callback on the frames read.
OutputCall ==
    /\ pcOut = "call"
    /\ callback' = UserCallback(callback, InputView(storage, num_samples))
    /\ pcOut' = "idle"
    /\ out_frames' = 0
    /\ available' = 0
    /\ num_samples' = 0
    /\ rateSend' = "none"
    /\ userCalls' = userCalls + 1
    /\ UNCHANGED <<createVars, runVars, boxVars, channels, inVars, input,
                   current_samplerate, storage, ejectVars, lastObserved, rateChanges,
                   numPublishes, adopted, zeroDrops, published>>

\* ------------------------------------------------ create_duplex_stream
\* (changed: the output stream is created whatever the input device answered)
CreateOutputAnyway(ok) == "output"
\* Lines 377-379: the input stream is created first.
CreateAfterInput(ok) == IF ok THEN "output" ELSE "done"
CreateInput(ok) ==
    /\ pcCreate = "input"
    /\ createLog' = Append(createLog, [stream |-> "input", ok |-> ok])
    /\ pcCreate' = CreateAfterInput(ok)
    /\ inputRunning' = ok
    /\ createResult' = IF ok THEN createResult ELSE "InputError"
    /\ UNCHANGED <<debug_assertions, input_config, outputRunning, boxVars, channels,
                   inVars, outVars, ejectVars, histVars>>

\* Lines 380-399: then the output stream, around the DuplexCallback.
CreateOutput(ok) ==
    /\ pcCreate = "output"
    /\ createLog' = Append(createLog, [stream |-> "output", ok |-> ok])
    /\ pcCreate' = "done"
    /\ outputRunning' = ok
    /\ inputRunning' = ok
    /\ createResult' = IF ok THEN "Ok" ELSE "OutputError"
    /\ UNCHANGED <<debug_assertions, input_config, boxVars, channels,
                   inVars, outVars, ejectVars, histVars>>

\* -------------------------------------------- DuplexStreamHandle::eject
NoCallback == [called |-> FALSE, last_len |-> 0]
Returned(kind, cb) == [kind |-> kind, callback |-> cb]

\* (changed: the output stream is ejected whatever the input stream answered)
EjectOutputAnyway(ok) == "output"
\* Lines 280-282: `?` after the input stream's eject.
EjectAfterInput(ok) == IF ok THEN "output" ELSE "done"
\* (changed: the callback cannot be recovered)
IntoInnerFails(cb) == [ok |-> FALSE, value |-> cb]
\* Lines 160-162: DuplexCallback::into_inner.
IntoInner(cb) == [ok |-> TRUE, value |-> cb]
\* Lines 283-289: the result once the output stream's eject has answered.
EjectReturn(ok, cb) ==
    IF ~ok THEN Returned("OutputError", NoCallback)
    ELSE IF IntoInner(cb).ok THEN Returned("Ok", IntoInner(cb).value)
    ELSE Returned("Other", NoCallback)

\* Lines 280-282: the input stream is ejected; its callback is not running.
EjectInput(ok) ==
    /\ createResult = "Ok"
    /\ pcEject = "idle"
    /\ pcIn = "idle"
    /\ ejectLog' = Append(ejectLog, [stream |-> "input", ok |-> ok])
    /\ pcEject' = EjectAfterInput(ok)
    /\ inputRunning' = FALSE
    /\ outputRunning' = ok
    /\ ejectResult' = IF ok THEN ejectResult ELSE Returned("InputError", NoCallback)
    /\ UNCHANGED <<createVars, boxVars, channels, inVars, outVars, histVars>>

\* Lines 283-289: the output stream is ejected and its callback unwrapped.
EjectOutput(ok) ==
    /\ pcEject = "output"
    /\ pcOut = "idle"
    /\ ejectLog' = Append(ejectLog, [stream |-> "output", ok |-> ok])
    /\ pcEject' = "done"
    /\ outputRunning' = FALSE
    /\ ejectResult' = EjectReturn(ok, callback)
    /\ UNCHANGED <<createVars, inputRunning, boxVars, channels, inVars, outVars, histVars>>

\* ------------------------------------------------------ specification
Init ==
    /\ debug_assertions \in BOOLEAN
    /\ input_config \in [samplerate : Rates, channels : ChannelCounts \ {0}]
    /\ pcCreate = "input"
    /\ createLog = <<>>
    /\ createResult = "none"
    /\ inputRunning = FALSE
    /\ outputRunning = FALSE
    /\ rateBox = <<>>
    /\ consBox = <<>>
    /\ channels = <<>>
    /\ producer = 0
    /\ pcIn = "idle"
    /\ output_samplerate = 0
    /\ rx = 0
    /\ inBuf = <<>>
    /\ input = 0
    /\ current_samplerate = 0
    /\ storage = ZeroedStorage(input_config)
    /\ callback = NoCallback
    /\ pcOut = "idle"
    /\ out_frames = 0
    /\ available = 0
    /\ num_samples = 0
    /\ pcEject = "idle"
    /\ ejectLog = <<>>
    /\ ejectResult = Returned("none", NoCallback)
    /\ lastObserved = 0
    /\ rateChanges = 0
    /\ numPublishes = 0
    /\ adopted = <<>>
    /\ zeroDrops = 0
    /\ rateSend = "none"
    /\ published = <<>>
    /\ userCalls = 0

InputStep ==
    \/ \E nch \in ChannelCounts, n \in 0 .. MaxInFrames : InputPoll(nch, n)
    \/ InputSend
    \/ InputUnderflow
    \/ InputPush

OutputStep ==
    \/ \E sr \in Rates, nout \in OutFrameCounts : OutputPublish(sr, nout)
    \/ OutputPoll
    \/ OutputAvail
    \/ OutputRead
    \/ OutputCall

Next ==
    \/ \E ok \in BOOLEAN : CreateInput(ok)
    \/ \E ok \in BOOLEAN : CreateOutput(ok)
    \/ InputStep
    \/ OutputStep
    \/ \E ok \in BOOLEAN : EjectInput(ok)
    \/ \E ok \in BOOLEAN : EjectOutput(ok)

Spec == Init /\ [][Next]_vars

\* Both streams invoke their callbacks again and again while they run, and a
\* started callback runs on.
FairSpec == Spec /\ WF_vars(InputStep) /\ WF_vars(OutputStep)

\* ------------------------------------------------------------ claims
AsLongAsOneRate == rateChanges <= 1

\* C1: while every output invocation has seen the same rate, at most one rate
\* was published and at most one channel built, and a producer held by the
\* input proxy or a consumer held by the output callback is not replaced.
C1_SingleRateSingleChannel ==
    /\ [](AsLongAsOneRate => numPublishes <= 1 /\ Len(channels) <= 1)
    /\ [][(AsLongAsOneRate' /\ producer # 0 => producer' = producer)
          /\ (AsLongAsOneRate' /\ input # 0 => input' = input)]_vars

\* A later output invocation, same rate, with the one channel in use on both
\* sides and no second publish.
C1_Witness ==
    /\ rateChanges = 1 /\ numPublishes = 1
    /\ producer = 1 /\ input = 1
    /\ callback.called /\ pcOut = "poll"

BoxesEmpty == rateBox = <<>> /\ consBox = <<>>
CallbacksIdle == pcIn = "idle" /\ pcOut = "idle"

\* C2 as stated: with the rate changed N times, a non-zero channel count, and
\* both ring buffers empty (nothing left to publish either), N channels were
\* built.
C2_ExactlyNChannels ==
    (BoxesEmpty /\ CallbacksIdle /\ zeroDrops = 0 /\ current_samplerate = lastObserved)
        => Len(channels) = rateChanges

\* C2 amended: with a non-zero channel count, once the rate ring buffer is
\* empty the channels built are as many as the rate sends the ring buffer
\* accepted, and those are at most the N changes of the rate.
C2_ChannelsMatchPublishes ==
    /\ numPublishes <= rateChanges
    /\ (rateBox = <<>> /\ zeroDrops = 0) => Len(channels) = numPublishes

\* Three changes of the rate of which one was published; everything is quiet.
C2_Witness ==
    /\ BoxesEmpty /\ CallbacksIdle /\ zeroDrops = 0
    /\ current_samplerate = lastObserved
    /\ rateChanges = 3 /\ numPublishes = 1 /\ Len(channels) = 1

\* C3: the channels the output callback adopted are channels the input proxy
\* built, in the order built, none twice.
C3_AdoptedInOrder ==
    /\ \A i \in DOMAIN adopted : adopted[i] \in 1 .. Len(channels)
    /\ \A i, j \in DOMAIN adopted : i < j => adopted[i] < adopted[j]

\* The second of three channels was rejected by the full ring buffer, the
\* first and the third were adopted.
C3_Witness == adopted = <<1, 3>>

\* The output callback holds the consumer of the channel whose producer the
\* input proxy holds, and that channel converts to rate r.
Paired(r) ==
    /\ producer # 0
    /\ input = producer
    /\ channels[producer].out_rate = r

\* Both streams were created and none is ejected: both callbacks keep being
\* invoked.
StreamsRun == createResult = "Ok" /\ pcEject = "idle"

\* C4: with both callbacks invoked for ever, a non-zero channel count and
\* the output rate staying at R from some point on, eventually and from then
\* on the two sides hold the two ends of one channel converting to R.
C4_EventualPairing ==
    \A r \in Rates :
        (<>[]StreamsRun /\ [](zeroDrops = 0) /\ <>[](lastObserved = r))
            => <>[]Paired(r)

\* C5: the frames one output invocation reads are at most the frames of the
\* storage created by create_duplex_stream and at most the frames the channel
\* reported (and still holds); every frame index written lies in the storage.
C5_ReadWithinStorage ==
    pcOut = "read" =>
        /\ NumSamplesOf(storage) = StorageFrames(input_config)
        /\ num_samples <= NumSamplesOf(storage)
        /\ num_samples <= available
        /\ num_samples <= AvailableFrames(channels[input])
        /\ \A i \in 0 .. (num_samples - 1) : i \in DOMAIN storage

\* The channel holds more frames than the storage has: the storage decides.
C5_Witness ==
    /\ pcOut = "read"
    /\ available > NumSamplesOf(storage)
    /\ num_samples = NumSamplesOf(storage)

\* C6 as stated: the frames read and handed to the user callback are at most
\* the frames of the output buffer of that invocation.
C6_ReadWithinOutputBuffer ==
    pcOut \in {"read", "call"} => num_samples <= out_frames

\* C7: when the channel holds fewer frames than the storage, exactly those
\* frames are read and handed to the user callback, and the storage frames
\* after them are left as they were.
C7_ShortReadLeavesRest ==
    [][/\ (pcOut = "read" /\ available < NumSamplesOf(storage))
            => /\ num_samples = available
               /\ \A i \in DOMAIN storage : i >= available => storage'[i] = storage[i]
       /\ (pcOut = "call" /\ pcOut' = "idle" /\ input # 0
              /\ available < NumSamplesOf(storage))
            => callback'.last_len = available]_vars

\* A short read has been made over a storage whose later frame still holds
\* audio of an earlier invocation.
C7_Witness ==
    /\ pcOut = "call"
    /\ input # 0
    /\ available = 1
    /\ NumSamplesOf(storage) = 2
    /\ storage[1] = Signal

\* C8: a ring buffer holds at most one item; an item in it stays until a pop
\* takes it out, whatever is sent meanwhile, and the pop returns that item.
C8_MailboxKeepsOccupant ==
    /\ [](Len(rateBox) <= 1 /\ Len(consBox) <= 1)
    /\ [][/\ (rateBox # <<>> /\ rateBox' # rateBox)
               => /\ rateBox' = <<>>
                  /\ \/ zeroDrops' = zeroDrops + 1
                     \/ /\ output_samplerate' = Head(rateBox)
                        /\ channels'[Len(channels')].out_rate = Head(rateBox)
          /\ (consBox # <<>> /\ consBox' # consBox)
               => /\ consBox' = <<>>
                  /\ input' = Head(consBox)]_vars

\* A rate send has just been rejected (the cached rate is not the rate seen)
\* and the ring buffer still holds the rate sent before.
C8_Witness ==
    /\ pcOut = "poll"
    /\ current_samplerate # lastObserved
    /\ rateBox = <<current_samplerate>>

OutputEjects == {i \in DOMAIN ejectLog : ejectLog[i].stream = "output"}

\* C9: when the input stream fails to stop, eject returns the input-side
\* error without ejecting the output stream and without the callback; the
\* output stream is ejected at most once in any case.
C9_InputFailureShortCircuits ==
    /\ (ejectLog # <<>> /\ ~ejectLog[1].ok)
          => /\ pcEject = "done"
             /\ ejectResult = Returned("InputError", NoCallback)
             /\ OutputEjects = {}
    /\ Cardinality(OutputEjects) <= 1

\* eject has returned the input-side error of a duplex stream that had run.
C9_Witness ==
    /\ pcEject = "done"
    /\ ~ejectLog[1].ok
    /\ callback.called

\* C10: the input stream is ejected first and the output stream only after
\* the input stream stopped; both stopped, eject returns the user callback
\* as it is; the output stream failing, it returns the output-side error;
\* it never returns Other.
C10_EjectOrderAndResult ==
    /\ ejectLog # <<>> => ejectLog[1].stream = "input"
    /\ \A i \in OutputEjects : i = 2 /\ ejectLog[1].ok
    /\ (Len(ejectLog) = 2 /\ ejectLog[2].ok)
          => /\ pcEject = "done"
             /\ ejectResult = Returned("Ok", callback)
    /\ (Len(ejectLog) = 2 /\ ~ejectLog[2].ok)
          => ejectResult = Returned("OutputError", NoCallback)
    /\ ejectResult.kind # "Other"

\* eject has returned the user callback, which had been given input frames.
C10_Witness ==
    /\ pcEject = "done"
    /\ ejectResult.kind = "Ok"
    /\ ejectResult.callback.called
    /\ ejectResult.callback.last_len > 0

OutputCreations == {i \in DOMAIN createLog : createLog[i].stream = "output"}

\* C11: the input stream is created first; the input device failing, the
\* input-side error is returned and the output device is not asked; the
\* output device failing, the output-side error is returned, there is no
\* handle and the input stream is not ejected; both created, the handle holds
\* the two streams.
C11_CreateOrderAndResult ==
    /\ createLog # <<>> => createLog[1].stream = "input"
    /\ \A i \in OutputCreations : i = 2 /\ createLog[1].ok
    /\ (createLog # <<>> /\ ~createLog[1].ok)
          => /\ pcCreate = "done"
             /\ createResult = "InputError"
             /\ OutputCreations = {}
    /\ (Len(createLog) = 2 /\ ~createLog[2].ok)
          => /\ createResult = "OutputError"
             /\ ejectLog = <<>>
             /\ pcEject = "idle"
    /\ createResult = "Ok"
          <=> (Len(createLog) = 2 /\ createLog[1].ok /\ createLog[2].ok)
    /\ (createResult = "Ok" /\ pcEject = "idle") => (inputRunning /\ outputRunning)

\* The input stream was created, the output device failed, and
\* create_duplex_stream has returned.
C11_Witness ==
    /\ pcCreate = "done"
    /\ Len(createLog) = 2
    /\ createLog[1].ok /\ ~createLog[2].ok

PublishStep == pcOut = "idle" /\ pcOut' = "poll"

\* C12: the cached rate starts at 0 and changes only in an invocation whose
\* rate send is accepted, to the rate sent; an invocation observing a rate
\* different from the cached one attempts a send (so a rejected send is tried
\* again while the rate still differs), and one observing the cached rate
\* attempts none.
C12_CacheFollowsAcceptedSends ==
    /\ [](pcCreate # "done" => current_samplerate = 0)
    /\ [][/\ PublishStep =>
               /\ (lastObserved' # current_samplerate) <=> (rateSend' # "none")
               /\ rateSend' = "accepted"
                     => /\ current_samplerate' = lastObserved'
                        /\ rateBox' = Append(rateBox, lastObserved')
               /\ rateSend' = "rejected"
                     => /\ current_samplerate' = current_samplerate
                        /\ rateBox' = rateBox /\ IsFull(rateBox)
               /\ rateSend' = "none"
                     => /\ current_samplerate' = current_samplerate
                        /\ rateBox' = rateBox
          /\ ~PublishStep => current_samplerate' = current_samplerate]_vars

\* After an accepted send and a completed invocation, an invocation observes
\* another rate and its send is rejected: the cached rate is the old one.
C12_Witness ==
    /\ pcOut = "poll"
    /\ rateSend = "rejected"
    /\ rateChanges = 2
    /\ numPublishes = 1
    /\ userCalls = 0 /\ callback.called
    /\ current_samplerate # lastObserved

\* No rate has yet been received with a non-zero channel count: no channel
\* has been constructed.
BeforeFirstChannel == channels = <<>>
InputStepBeforeFirstChannel == BeforeFirstChannel /\ BeforeFirstChannel' /\ InputStep

\* C13 as stated: before the first rate is received with a non-zero channel
\* count the input proxy holds no producer, and an input invocation of that
\* period pushes nothing and changes no channel and no ring buffer content.
C13_NothingChanged ==
    /\ [](BeforeFirstChannel => producer = 0)
    /\ [][InputStepBeforeFirstChannel
             => UNCHANGED <<channels, rateBox, consBox>>]_vars

\* C13: before the first rate is received with a non-zero channel count the
\* input proxy holds no producer, and an input invocation of that period
\* returns at once, pushes nothing, changes no channel and puts nothing into
\* either ring buffer; the only thing it changes is the rate ring buffer,
\* from which it takes the waiting rate when the channel count is zero.
C13_NoProducerNoPush ==
    /\ [](BeforeFirstChannel => producer = 0 /\ pcIn = "idle" /\ consBox = <<>>)
    /\ [][InputStepBeforeFirstChannel
             => /\ producer' = 0
                /\ pcIn' = "idle"
                /\ consBox' = consBox
                /\ rateBox # <<>> /\ rateBox' = Tail(rateBox)
                /\ zeroDrops' = zeroDrops + 1]_vars

\* A rate was taken with zero input channels before any channel exists.
C13_Witness ==
    /\ BeforeFirstChannel
    /\ inputRunning
    /\ zeroDrops = 1
    /\ numPublishes = 1
    /\ rateBox = <<>>
    /\ producer = 0

OutputOrder ==
    {<<"idle", "poll">>, <<"poll", "avail">>, <<"avail", "read">>,
     <<"avail", "call">>, <<"read", "call">>, <<"call", "idle">>}

\* C14: an output invocation runs the user callback exactly once, as its last
\* step, after its rate publish and its poll of the consumer ring buffer,
\* whatever the rate send answered and whether a consumer is held or not;
\* without a consumer the input view given to the user callback is empty.
C14_UserCallbackOncePerInvocation ==
    /\ [](pcOut # "idle" => userCalls = 0)
    /\ []((pcOut = "idle" /\ lastObserved # 0) => userCalls = 1)
    /\ []((pcOut = "call" /\ input = 0) => num_samples = 0)
    /\ [][/\ pcOut' # pcOut => <<pcOut, pcOut'>> \in OutputOrder
          /\ (callback' # callback \/ userCalls' > userCalls)
                => /\ pcOut = "call" /\ pcOut' = "idle"
                   /\ callback'.called
                   /\ callback'.last_len = num_samples
                   /\ input = 0 => callback'.last_len = 0]_vars

\* An invocation whose rate send was rejected and which holds no consumer has
\* returned after running the user callback on an empty input view.
C14_Witness ==
    /\ pcOut = "idle"
    /\ userCalls = 1
    /\ input = 0
    /\ current_samplerate # lastObserved
    /\ callback.called /\ callback.last_len = 0

RateReceived == rateBox' # rateBox /\ InputStep
InputStarts == \E nch \in ChannelCounts, n \in 0 .. MaxInFrames : InputPoll(nch, n)

\* C15: an input invocation that receives a rate while its configuration has
\* zero input channels constructs no channel (no channel ever has zero
\* channels), leaves the producer as it was, puts nothing into the consumer
\* ring buffer, pushes no frames and returns; the input stream keeps running
\* and its next invocation can start.
C15_ZeroChannelsRateDropped ==
    /\ [](\A c \in DOMAIN channels : channels[c].nch # 0)
    /\ [][RateReceived
             => \/ /\ zeroDrops' = zeroDrops
                   /\ Len(channels') = Len(channels) + 1
                \/ /\ zeroDrops' = zeroDrops + 1
                   /\ channels' = channels]_vars
    /\ [][zeroDrops' # zeroDrops
             => /\ RateReceived
                /\ pcIn = "idle" /\ pcIn' = "idle"
                /\ UNCHANGED <<channels, producer, consBox, rx, inBuf>>
                /\ inputRunning /\ inputRunning']_vars
    /\ []((zeroDrops > 0 /\ inputRunning /\ pcIn = "idle") => ENABLED InputStarts)

\* The first rate built channel 1; the second rate, another one, was received
\* with zero input channels: the producer is still that of channel 1.
C15_Witness ==
    /\ zeroDrops = 1
    /\ numPublishes = 2
    /\ rateBox = <<>>
    /\ Len(channels) = 1
    /\ channels[1].out_rate # current_samplerate
    /\ producer = 1
    /\ pcIn = "idle"

\* The places where the consumer end of channel c is.
ConsumerPlaces(c) ==
    (IF rx = c THEN {"input callback"} ELSE {})
    \cup (IF \E i \in DOMAIN consBox : consBox[i] = c THEN {"ring buffer"} ELSE {})
    \cup (IF input = c THEN {"output callback"} ELSE {})
    \cup (IF channels[c].cons_dropped THEN {"dropped"} ELSE {})

\* C16: each side holds at most one end: the producer held is that of the
\* latest channel, every earlier one being dropped; the consumer end of every
\* channel constructed is in exactly one place (with the input invocation
\* that is about to send it, in the consumer ring buffer, held by the output
\* callback, or dropped); a consumer the output callback held before adopting
\* another one is dropped.
C16_EndsAreNeverShared ==
    /\ [](producer = Len(channels))
    /\ [](input \in 0 .. Len(channels))
    /\ [](\A c \in DOMAIN channels : Cardinality(ConsumerPlaces(c)) = 1)
    /\ [](\A i \in DOMAIN adopted :
             adopted[i] # input => channels[adopted[i]].cons_dropped)
    /\ [][(input' # input /\ input # 0) => channels'[input].cons_dropped]_vars

\* Three channels were constructed: the consumer of the first was adopted and
\* then replaced, the second was rejected by the full ring buffer, the third
\* is held by the output callback.
C16_Witness ==
    /\ Len(channels) = 3
    /\ adopted = <<1, 3>>
    /\ channels[1].cons_dropped
    /\ channels[2].cons_dropped
    /\ input = 3 /\ producer = 3

PushStep == pcIn = "push" /\ InputStep

\* C17: in whatever build configuration, each turn of the push loop hands the
\* producer the next chunk of the captured buffer, at most 32 frames, holding
\* the very samples captured, and goes on with the frames after that chunk:
\* what is pushed over the invocation is the captured buffer.
C17_PushedChunksAreCaptured ==
    [][PushStep
          => /\ Len(FirstChunk(inBuf)) <= ChunkFrames
             /\ FirstChunk(inBuf) \o inBuf' = inBuf
             /\ channels' = [channels EXCEPT ![producer] =
                                PushInterleaved(@, FirstChunk(inBuf))]]_vars

\* The steps an invocation still has to take before it returns.
ChunksLeft(buf) == (Len(buf) + ChunkFrames - 1) \div ChunkFrames
StepsLeftIn ==
    CASE pcIn = "idle" -> 0
      [] pcIn = "push" -> ChunksLeft(inBuf)
      [] pcIn = "underflow" -> 1 + ChunksLeft(inBuf)
      [] pcIn = "send" -> 2 + ChunksLeft(inBuf)
StepsLeftOut ==
    CASE pcOut = "idle" -> 0
      [] pcOut = "call" -> 1
      [] pcOut = "read" -> 2
      [] pcOut = "avail" -> 3
      [] pcOut = "poll" -> 4

\* C18: wherever the other callback stands and whatever the ring buffers
\* hold, a callback that has started an invocation has a step of its own to
\* take, every move of its position and every turn of the push loop brings it
\* nearer to its return, and the number of steps left is bounded; a running stream whose callback is idle can start
\* an invocation.  No callback waits for the other.
C18_NoWaiting ==
    /\ [](pcIn # "idle" => ENABLED InputStep)
    /\ [](pcOut # "idle" => ENABLED OutputStep)
    /\ []((inputRunning /\ pcIn = "idle") => ENABLED InputStep)
    /\ []((outputRunning /\ pcOut = "idle") => ENABLED OutputStep)
    /\ [](StepsLeftIn <= 2 + ChunksLeft(Captured(MaxInFrames)))
    /\ [][(pcIn # "idle" /\ pcIn' # pcIn) => StepsLeftIn' < StepsLeftIn]_vars
    /\ [][(pcIn = "push" /\ InputPush) => StepsLeftIn' < StepsLeftIn]_vars
    /\ [][(pcOut # "idle" /\ pcOut' # pcOut) => StepsLeftOut' < StepsLeftOut]_vars

\* The input invocation goes on after its consumer was rejected by the full
\* ring buffer, while the output invocation stands between its rate publish
\* and its poll and both ring buffers are full.
C18_Witness ==
    /\ pcIn = "underflow"
    /\ pcOut = "poll"
    /\ IsFull(rateBox) /\ IsFull(consBox)
    /\ channels[producer].cons_dropped

\* C19: when both ring buffers are empty, both callbacks are between
\* invocations, the streams run and the output callback holds a consumer,
\* that consumer is the one of the channel whose producer the input proxy
\* holds.
C19_QuietMeansPaired ==
    (BoxesEmpty /\ CallbacksIdle /\ StreamsRun /\ input # 0) => input = producer

PublishedRates == {published[k] : k \in DOMAIN published}

\* C20: a rate waiting in the rate ring buffer is the cached rate of the
\* output callback; the target rate of every channel constructed is a rate
\* the output callback observed and whose send was accepted (the k-th channel
\* that of the k-th accepted send while no rate has been received with zero
\* channels); there are never more channels than accepted sends.
C20_ChannelsFromPublishedRates ==
    /\ rateBox # <<>> => rateBox = <<current_samplerate>>
    /\ published # <<>> => published[Len(published)] = current_samplerate
    /\ Len(published) = numPublishes
    /\ Len(channels) <= numPublishes
    /\ \A c \in DOMAIN channels : channels[c].out_rate \in PublishedRates
    /\ zeroDrops = 0 => \A c \in DOMAIN channels : channels[c].out_rate = published[c]
    /\ Len(channels) + zeroDrops + Len(rateBox) = numPublishes

\* Three sends were accepted; two channels were built from the first two and
\* the third rate is waiting in the ring buffer.
C20_Witness ==
    /\ numPublishes = 3
    /\ Len(channels) = 2
    /\ rateBox = <<current_samplerate>>
    /\ channels[2].out_rate # current_samplerate

====
